---- MODULE Spec2Model ----
(***************************************************************************)
(* The batched, rate-limited inference pipeline of ocr-quality-test.      *)
(*                                                                         *)
(* Two scripts of the repository drive the same pipeline:                 *)
(*   analyzeReceipts  chunk + processFilesBatch (Promise.allSettled) +    *)
(*                    a remainder-of-window wait between batches;         *)
(*   processOCR       an inline chunk loop + p-limit + Promise.all over   *)
(*                    promises whose errors are caught, + a fixed wait.   *)
(* The variable script selects the one a behaviour runs.  Time is the     *)
(* value of Date.now(); it is read by the controller only, so it advances *)
(* where the controller resumes from an await.                            *)
(***************************************************************************)
EXTENDS Integers, Sequences, FiniteSets

(* ------------------------------ bounds -------------------------------- *)
\* largest number of files of a run (maxFiles / directory entries)
MaxFiles == 3
\* largest batchSize argument tried
MaxBatch == 2
\* largest rateLimitWindow argument tried, and the longest time a batch takes
\* to settle (clock ticks)
MaxWindow == 2
\* stands for the literal 50 of processOCR's chunk loop
OcrChunkSize == 2
\* stands for the literal 50 of pLimit(50)
OcrConcurrency == 2
\* stands for the literal 60000 of processOCR's setTimeout (clock ticks)
OcrWait == 2

\* smallest batchSize argument tried
MinBatch == 0 - 1
\* how late a timer may fire (clock ticks)
Late == {0, 1}

VARIABLES
  script,           \* "analyzeReceipts" or "processOCR"
  maxFiles,         \* analyzeReceipts: argument
  batchSize,        \* analyzeReceipts: argument
  rateLimitWindow,  \* analyzeReceipts: argument
  targetFiles,      \* processOCR: the directory's .pdf/.png entries, sorted
  limit,            \* processOCR: argument, << >> when undefined, else <<n>>
  service,          \* the answers the inference service gives in this run
  pc,               \* the controller's position
  error,            \* what the run was rejected with
  fileNames,        \* fileNames / filesToProcess
  batches,          \* batches / chunks
  i,                \* the loop index (0-based, as in the code)
  st,               \* each file's position in its chain
  stage,            \* the stage at which a file's chain failed
  calls,            \* how often the invoker was called for a file
  allResults,       \* analyzeReceipts: allResults (files, in push order)
  results,          \* processOCR: results (the Map: <<key, file>> in insertion order)
  written,          \* saveReceiptToJson: the per-item files written (by number)
  errorLog,         \* the files console.error reported as failed
  now,              \* Date.now()
  startTime,        \* startTime of the current batch
  wakeAt,           \* when the pending timer is due
  prevStart,        \* history: startTime of the batch before the current one
  lastJoin,         \* history: index, elapsed time and requested wait of the
                    \* batch joined last
  savePos,          \* saveOCRResults: how many entries of results are written
  manifest,         \* all_results.json of this run's directory
  outputDir,        \* the directory of the record files, << >> until it is known
  run,              \* 1 in the first run over the input, 2 in a run repeated
  prior,            \* what the run before left on the disk
  payload,          \* what the inference service answered for a file
  disk,             \* evaluate: the files of outputsDir and evaluateDir
  evalFiles,        \* evaluate: files, the sorted .json entries of outputsDir
  compared,         \* evaluate: how many of them flatMap has mapped
  allComparisons,   \* evaluate: the rows of the files compared so far
  csv,              \* evaluate: the report file, << >> until it is written
  rawJson,          \* transformToReceiptData: jsonContent, parsed where it is JSON
  receiptData       \* transformToReceiptData: << >>, or the record it returned

\* the arguments and inputs of a run: no step changes them
params ==
  << script, maxFiles, batchSize, rateLimitWindow, targetFiles, limit, service >>

vars == << script, maxFiles, batchSize, rateLimitWindow, targetFiles, limit, service,
           pc, error, fileNames, batches, i, st, stage, calls, allResults,
           results, written, errorLog, now, startTime, wakeAt, prevStart, lastJoin,
           savePos, manifest, outputDir, run, prior, payload,
           disk, evalFiles, compared, allComparisons, csv,
           rawJson, receiptData >>

\* the persistence of main and the disk an earlier run left
sink == << savePos, manifest, outputDir, run, prior >>

\* the state of the evaluator
comparator == << disk, evalFiles, compared, allComparisons, csv >>

\* the argument and the result of a call of transformToReceiptData alone
transformer == << rawJson, receiptData >>

(* ------------------------------ helpers ------------------------------- *)
Range(s) == { s[k] : k \in 1..Len(s) }

Min(a, b) == IF a < b THEN a ELSE b

Max(a, b) == IF a > b THEN a ELSE b

File(n, e) == [name |-> n, ext |-> e]

\* the number of items of the scenario with batches of 2, 2 and 1 items
ScenarioItems == 2 + 2 + 1

\* every file a run can meet
FILES ==
  { File(n, e) : n \in 1..Max(MaxFiles, ScenarioItems), e \in {"pdf", "png"} }

\* Array.prototype.slice(a, b) for 0 <= a <= b: 0-based, end exclusive, clamped
slice(array, a, b) == SubSeq(array, a + 1, Min(b, Len(array)))

\* Math.ceil(n / d) for d > 0
CeilDiv(n, d) == IF n % d = 0 THEN n \div d ELSE (n \div d) + 1

(* ------------------------------- chunk -------------------------------- *)
\* Array.from({length: Infinity}) throws RangeError: n / 0 is Infinity for n > 0
chunkThrows(array, size) == size = 0 /\ Len(array) > 0

\* chunkLength with Math.floor for Math.ceil
chunkLength_floor(array, size) ==
  IF size > 0 THEN Len(array) \div size ELSE 0

\* the length Array.from uses: Math.ceil(array.length / size), and ToLength
\* maps NaN (0 / 0) and every negative number to 0
chunkLength(array, size) ==
  IF size > 0 THEN CeilDiv(Len(array), size) ELSE 0

\* chunk with slice(i * size, i * size + size + 1)
chunk_overlap(array, size) ==
  [ k \in 1..chunkLength(array, size) |->
      slice(array, (k - 1) * size, (k - 1) * size + size + 1) ]

chunk(array, size) ==
  [ k \in 1..chunkLength(array, size) |->
      slice(array, (k - 1) * size, (k - 1) * size + size) ]

\* processOCR: for (let i = 0; i < len; i += size) chunks.push(slice(i, i + size))
RECURSIVE chunksFrom(_, _, _)
chunksFrom(array, from, size) ==
  IF from < Len(array)
  THEN << slice(array, from, from + size) >> \o chunksFrom(array, from + size, size)
  ELSE << >>

(* ------------------------------- inputs ------------------------------- *)
\* analyzeReceipts: Array.from({length: maxFiles}, (_, i) => `${i + 1}.pdf`)
generatedNames(n) == [ k \in 1..n |-> File(k, "pdf") ]

\* processOCR: a directory of n numbered receipts after filter and sort; for
\* d > 0 the receipt numbered d is present both as d.pdf and as d.png
Listing(n, d) ==
  [ k \in 1..n |->
      IF d = 0 \/ k <= d THEN File(k, "pdf")
      ELSE IF k = d + 1 THEN File(d, "png")
      ELSE File(k - 1, "pdf") ]

\* limit ? targetFiles.slice(0, limit) : targetFiles   (0 is falsy)
filesToProcess(files, lim) ==
  IF Len(lim) = 1 /\ lim[1] # 0 THEN slice(files, 0, lim[1]) ELSE files

\* path.parse(file).name, path.basename(file_name, '.pdf'): the item's identifier
originalName(f) == f.name

(* ------------------------------ the disk ------------------------------ *)
\* the outputDir argument of analyzeReceipts: one fixed directory
OutputDirArg == 0

\* clock ticks after which month, day and time of day come round again
TicksPerYear == 1051200

\* `${formatDate(now)}_${formatTime(now)}`: month, day, hour, minute and second
\* of the clock, without the year
timestamp(date) == date % TicksPerYear

\* outputPath dropping the directory
outputPath_flat(dir, fileName) == << OutputDirArg, fileName >>

\* path.join(outputDir, `${fileName}.json`)
outputPath(dir, fileName) == << dir, fileName >>

\* no run before this one: no directory, no file
NoPrior == [ dirs |-> {}, files |-> {}, manifests |-> {} ]

\* no all_results.json in the run's directory
NoManifest == [ exists |-> FALSE, entries |-> {} ]

\* Object.fromEntries(results): one property per key of the Map
fromEntries(m) == { m[k] : k \in 1..Len(m) }

\* the arguments of a call of analyzeReceipts
analyzeReceiptsCall(n, size, window) ==
  /\ script = "analyzeReceipts"
  /\ maxFiles = n
  /\ batchSize = size
  /\ rateLimitWindow = window
  /\ targetFiles = << >>
  /\ limit = << >>

\* the directory and the argument of a call of processOCR
processOCRCall(files, lim) ==
  /\ script = "processOCR"
  /\ maxFiles = 0
  /\ batchSize = 0
  /\ rateLimitWindow = 0
  /\ targetFiles = files
  /\ limit = lim

\* the answers of a service that returns journal entries or text that is not
\* JSON
PlainAnswers == {"not JSON", "entries"}

\* the inputs tried
Inputs ==
  /\ service = PlainAnswers
  /\ \/ \E n \in 0..MaxFiles, size \in MinBatch..MaxBatch, window \in 0..MaxWindow :
          analyzeReceiptsCall(n, size, window)
     \/ \E n \in 0..MaxFiles : \E d \in 0..Max(n - 1, 0) :
          \E lim \in { << >> } \cup { << m >> : m \in 0..MaxFiles } :
             processOCRCall(Listing(n, d), lim)

(* --------------------------- the evaluator: data ----------------------- *)
\* the two directories the comparator reads
Sides == {"outputs", "evaluate"}

\* all_results.json, which saveOCRResults writes beside the record files: its
\* stem is not a number; the model gives it the number 0
AllResultsJson == File(0, "json")

\* the entries a directory of the evaluator can hold
EvalNames ==
  { File(n, "json") : n \in 1..MaxFiles } \cup { AllResultsJson, File(1, "pdf") }

\* parseInt(a.split('.')[0])
parseIntStem(f) == [ isNaN |-> f = AllResultsJson, value |-> f.name ]

\* the values of a field of a parsed file: a string (its characters), a
\* number, or undefined when the object has no such field
Undefined == [ t |-> "undefined", s |-> << >>, n |-> 0 ]

Str(s) == [ t |-> "string", s |-> s, n |-> 0 ]

Num(n) == [ t |-> "number", s |-> << >>, n |-> n ]

DigitChars == << "0", "1", "2", "3", "4", "5", "6", "7", "8", "9" >>

\* Number.prototype.toString of a natural number
RECURSIVE Decimal(_)
Decimal(n) ==
  IF n < 10 THEN << DigitChars[n + 1] >>
  ELSE Decimal(n \div 10) \o << DigitChars[(n % 10) + 1] >>

\* String(value)
String(value) ==
  CASE value.t = "string" -> value.s
    [] value.t = "number" -> Decimal(value.n)
    [] OTHER -> << "u", "n", "d", "e", "f", "i", "n", "e", "d" >>

\* invoice.replace(/[^T0-9]/g, '')
cleanInvoiceNumber(invoice) ==
  SelectSeq(invoice, LAMBDA c : c = "T" \/ c \in Range(DigitChars))

\* this.fields
fields ==
  << "date", "invoice_number", "store_name", "tax_10_amount", "tax_8_amount",
     "total_amount" >>

\* an object with none of the fields of a receipt, as {} or all_results.json
EmptyObject == [ field \in Range(fields) |-> Undefined ]

\* what a path holds: nothing, text that is not JSON, or the text of an object
Missing == [ kind |-> "missing", data |-> EmptyObject ]

NotJson == [ kind |-> "not JSON", data |-> EmptyObject ]

Object(data) == [ kind |-> "object", data |-> data ]

\* a record of outputsDir with the invoice number as it is printed
printedReceipt ==
  [ date |-> Str(<< "1", "/", "2" >>), invoice_number |-> Str(<< "T", "-", "1" >>),
    store_name |-> Str(<< "A" >>), tax_10_amount |-> Num(8), tax_8_amount |-> Num(0),
    total_amount |-> Num(8) ]

\* the record of evaluateDir for it: another spelling of the store, an amount
\* that is a string
truthReceipt ==
  [ date |-> Str(<< "1", "/", "2" >>), invoice_number |-> Str(<< "T", "1" >>),
    store_name |-> Str(<< "B" >>), tax_10_amount |-> Str(<< "8" >>),
    tax_8_amount |-> Num(0), total_amount |-> Num(8) ]

\* the records of outputsDir that are tried: also one of two-digit amounts and
\* one without an invoice number
OutputsReceipts ==
  { printedReceipt,
    [ printedReceipt EXCEPT !.tax_10_amount = Num(10), !.total_amount = Num(10) ],
    [ printedReceipt EXCEPT !.invoice_number = Undefined ] }

\* the records of evaluateDir that are tried: also one whose invoice number is
\* as it is printed and whose total differs, and one without an invoice number
EvaluateReceipts ==
  { truthReceipt,
    [ printedReceipt EXCEPT !.total_amount = Num(9) ],
    [ truthReceipt EXCEPT !.invoice_number = Undefined ] }

\* no file in either directory
NoDisk == [ side \in Sides |-> [ f \in EvalNames |-> Missing ] ]

\* COMPARISON_SYMBOLS
MATCH == "MATCH"

MISMATCH == "MISMATCH"

\* lines 54-68: readFileSync and JSON.parse throw for a missing file and for
\* text that is not JSON; for a path of outputsDir the invoice number is
\* cleaned, which throws when it is not a string
readJsonFile(side, content) ==
  IF content.kind # "object"
  THEN [ throws |-> TRUE, data |-> EmptyObject ]
  ELSE IF side # "outputs"
  THEN [ throws |-> FALSE, data |-> content.data ]
  ELSE IF content.data.invoice_number.t # "string"
  THEN [ throws |-> TRUE, data |-> EmptyObject ]
  ELSE [ throws |-> FALSE,
         data |-> [ content.data EXCEPT
                      !.invoice_number = Str(cleanInvoiceNumber(@.s)) ] ]

\* comparisonResult judging store_name as every other field
comparisonResult_strict(field, outputs_value, evaluate_value) ==
  IF outputs_value = evaluate_value THEN MATCH ELSE MISMATCH

\* lines 83-87: store_name always matches; the others when the strings are equal
comparisonResult(field, outputs_value, evaluate_value) ==
  IF field = "store_name" THEN MATCH
  ELSE IF outputs_value = evaluate_value THEN MATCH
  ELSE MISMATCH

\* lines 70-93: the rows of a file, none when reading either side throws
compareReceipts(fileName) ==
  LET outputsData == readJsonFile("outputs", disk.outputs[fileName])
      evaluateData == readJsonFile("evaluate", disk.evaluate[fileName])
  IN  IF outputsData.throws \/ evaluateData.throws
      THEN << >>
      ELSE [ k \in 1..Len(fields) |->
               [ file_name |-> fileName,
                 field |-> fields[k],
                 outputs_value |-> String(outputsData.data[fields[k]]),
                 evaluate_value |-> String(evaluateData.data[fields[k]]),
                 comparison_result |->
                   comparisonResult(fields[k],
                                    String(outputsData.data[fields[k]]),
                                    String(evaluateData.data[fields[k]])) ] ]

\* the orders in which the names of a set can stand
Permutations(S) ==
  { s \in [ 1..Cardinality(S) -> S ] : \A j, k \in 1..Cardinality(S) : j # k => s[j] # s[k] }

\* lines 114-118: sort by numA - numB gives the ascending order of the numbers;
\* with a stem that is not a number the comparison function returns NaN, it is
\* not a consistent comparator and the order of the result is
\* implementation-defined
sortByNumber(S) ==
  { s \in Permutations(S) :
      (\A f \in S : ~parseIntStem(f).isNaN) =>
         \A j, k \in 1..Cardinality(S) :
            j < k => parseIntStem(s[j]).value < parseIntStem(s[k]).value }

\* lines 112-113: the entries of outputsDir that end with .json
readdirJson == { f \in EvalNames : disk.outputs[f].kind # "missing" /\ f.ext = "json" }

\* the evaluator has not run
NoComparison ==
  /\ disk = NoDisk
  /\ evalFiles = << >>
  /\ compared = 0
  /\ allComparisons = << >>
  /\ csv = << >>

\* transformToReceiptData is not called on its own
NoTransform ==
  /\ rawJson = [ text |-> "none", entries |-> << >> ]
  /\ receiptData = << >>

\* the state of a run before its first step
Start ==
  /\ pc = "entry"
  /\ error = "none"
  /\ fileNames = << >>
  /\ batches = << >>
  /\ i = 0
  /\ st = [ f \in FILES |-> "pending" ]
  /\ stage = [ f \in FILES |-> "none" ]
  /\ calls = [ f \in FILES |-> 0 ]
  /\ allResults = << >>
  /\ results = << >>
  /\ written = {}
  /\ errorLog = {}
  /\ now = 0
  /\ startTime = 0
  /\ wakeAt = 0
  /\ prevStart = 0
  /\ lastJoin = [ batch |-> 0 - 1, elapsed |-> 0, wait |-> 0 ]
  /\ savePos = 0
  /\ manifest = NoManifest
  /\ outputDir = IF script = "analyzeReceipts" THEN << OutputDirArg >> ELSE << >>
  /\ run = 1
  /\ prior = NoPrior
  /\ payload = [ f \in FILES |-> "none" ]

Init == Inputs /\ Start /\ NoComparison /\ NoTransform

(* ---------------------------- the transformer ------------------------- *)
\* the answers of the inference service that are told apart: text that is not
\* JSON, the JSON text null, an empty array, an array of journal entries
Payloads == {"not JSON", "null", "empty array", "entries"}

\* JSON.parse(jsonContent): throws on text that is not JSON; else the value
JSONparse(jsonContent) ==
  CASE jsonContent = "not JSON" -> [ throws |-> TRUE, isNull |-> FALSE, length |-> 0 ]
    [] jsonContent = "null" -> [ throws |-> FALSE, isNull |-> TRUE, length |-> 0 ]
    [] jsonContent = "empty array" -> [ throws |-> FALSE, isNull |-> FALSE, length |-> 0 ]
    [] jsonContent = "entries" -> [ throws |-> FALSE, isNull |-> FALSE, length |-> 1 ]

\* transformThrows without the check of lines 141-143
transformThrows_unchecked(jsonContent) == JSONparse(jsonContent).throws

\* transformToReceiptData throws: JSON.parse throws, or
\* !journalEntries || journalEntries.length === 0
transformThrows(jsonContent) ==
  LET journalEntries == JSONparse(jsonContent)
  IN  \/ journalEntries.throws
      \/ journalEntries.isNull
      \/ journalEntries.length = 0

(* ------------------------- promises and joins ------------------------- *)
\* promiseOf with processOCR's .catch() rethrowing
promiseOf_rethrow(f) ==
  IF st[f] = "succeeded" THEN "fulfilled"
  ELSE IF st[f] = "failed" THEN "rejected" ELSE "pending"

\* the state of the promise the join of a batch sees for file f:
\* processFilesBatch's callback rethrows (throw error), so a failed chain
\* rejects; processOCR's chain ends in .catch(), so a failed chain fulfils
promiseOf(f) ==
  IF st[f] = "succeeded" THEN "fulfilled"
  ELSE IF st[f] = "failed"
       THEN (IF script = "analyzeReceipts" THEN "rejected" ELSE "fulfilled")
       ELSE "pending"

\* allSettled behaving as Promise.race: fulfils once one promise has settled
allSettled_race(batch) ==
  IF \E f \in Range(batch) : promiseOf(f) # "pending" THEN "fulfilled" ELSE "pending"

\* Promise.allSettled: fulfils once every promise has settled, never rejects
allSettled(batch) ==
  IF \A f \in Range(batch) : promiseOf(f) # "pending" THEN "fulfilled" ELSE "pending"

\* Promise.all: rejects as soon as one promise rejects, else fulfils when all have
PromiseAll(batch) ==
  IF \E f \in Range(batch) : promiseOf(f) = "rejected" THEN "rejected"
  ELSE IF \A f \in Range(batch) : promiseOf(f) = "fulfilled" THEN "fulfilled"
  ELSE "pending"

\* fulfilledOf dropping the whole batch when one task rejected (fail-fast)
fulfilledOf_failFast(batch) ==
  IF \E f \in Range(batch) : promiseOf(f) = "rejected" THEN << >> ELSE batch

\* fulfilledOf without the filter on status
fulfilledOf_unfiltered(batch) == batch

\* fulfilledOf filtering on status === 'rejected'
fulfilledOf_rejected(batch) == SelectSeq(batch, LAMBDA f : promiseOf(f) = "rejected")

\* fulfilledOf handing the fulfilled values over last task first
fulfilledOf_lastFirst(batch) ==
  LET kept == SelectSeq(batch, LAMBDA f : promiseOf(f) = "fulfilled")
  IN  [ k \in 1..Len(kept) |-> kept[Len(kept) + 1 - k] ]

\* batchResults.filter(status === 'fulfilled').map(value), in the batch's order
fulfilledOf(batch) == SelectSeq(batch, LAMBDA f : promiseOf(f) = "fulfilled")

\* batchAt resubmitting the files of the batch before that failed
batchAt_retry(k) ==
  IF k = 0 THEN batches[1]
  ELSE SelectSeq(batches[k], LAMBDA f : st[f] = "failed") \o batches[k + 1]

\* batchAt handing out the batch after it along with batches[i]
batchAt_two(k) ==
  IF k + 2 <= Len(batches) THEN batches[k + 1] \o batches[k + 2] ELSE batches[k + 1]

\* batches[i]
batchAt(k) == batches[k + 1]

\* waitTime sleeping the time already spent instead of the remainder
waitTime_elapsed(elapsedTime, window) == elapsedTime

\* waitTime sleeping the whole window
waitTime_window(elapsedTime, window) == window

\* rateLimitWindow - elapsedTime
waitTime(elapsedTime, window) == window - elapsedTime

\* elapsedTime < rateLimitWindow && i < batches.length - 1
mustWait(elapsedTime, window, k, n) == elapsedTime < window /\ k < n - 1

\* index < chunks.length - 1
ocrMustWait(k, n) == k < n - 1

\* an accumulator that is a list of entries: a present key gets a second entry
MapSet_push(m, key, value) == Append(m, << key, value >>)

\* Map.prototype.set: a present key keeps its place and takes the new value
MapSet(m, key, value) ==
  IF \E k \in 1..Len(m) : m[k][1] = key
  THEN [ k \in 1..Len(m) |-> IF m[k][1] = key THEN << key, value >> ELSE m[k] ]
  ELSE Append(m, << key, value >>)

(* --------------------------- analyzeReceipts --------------------------- *)
\* lines 233-241: build fileNames, chunk them; chunk may throw
analyzeReceipts ==
  /\ script = "analyzeReceipts" /\ pc = "entry"
  /\ fileNames' = generatedNames(maxFiles)
  /\ IF chunkThrows(fileNames', batchSize)
     THEN /\ pc' = "threw" /\ error' = "RangeError"
          /\ batches' = batches
     ELSE /\ pc' = "loop" /\ error' = error
          /\ batches' = chunk(fileNames', batchSize)
  /\ UNCHANGED << params, transformer, comparator, payload, sink, i, st, stage, calls, allResults, results, written,
                  errorLog, now, startTime, wakeAt, prevStart, lastJoin >>

\* lines 243-247 and 193-197: startTime, then processFilesBatch maps every file
\* of the batch to a task whose first step calls the invoker
processFilesBatch ==
  /\ script = "analyzeReceipts" /\ pc = "loop" /\ i < Len(batches)
  /\ startTime' = now
  /\ prevStart' = startTime
  /\ st' = [ f \in FILES |-> IF f \in Range(batchAt(i)) THEN "invoking" ELSE st[f] ]
  /\ calls' = [ f \in FILES |-> IF f \in Range(batchAt(i)) THEN calls[f] + 1 ELSE calls[f] ]
  /\ pc' = "join"
  /\ UNCHANGED << params, transformer, comparator, payload, sink, error, fileNames, batches, i, stage, allResults,
                  results, written, errorLog, now, wakeAt, lastJoin >>

\* chainFails with the error swallowed: it is logged and the task fulfils
chainFails_swallow(f, s) ==
  /\ st' = [ st EXCEPT ![f] = "succeeded" ]
  /\ stage' = [ stage EXCEPT ![f] = s ]
  /\ errorLog' = errorLog \cup {f}

\* the chain of f fails at stage s: console.error, then throw error (204-207)
chainFails(f, s) ==
  /\ st' = [ st EXCEPT ![f] = "failed" ]
  /\ stage' = [ stage EXCEPT ![f] = s ]
  /\ errorLog' = errorLog \cup {f}

\* line 197: the call to the inference service fails
inferenceByOpenAI_rejects(f) ==
  /\ script = "analyzeReceipts" /\ st[f] = "invoking"
  /\ chainFails(f, "invocation")
  /\ UNCHANGED << params, transformer, comparator, payload, sink, pc, error, fileNames, batches, i, calls, allResults,
                  results, written, now, startTime, wakeAt, prevStart, lastJoin >>

\* transformToReceiptData_throws without the throw of line 163: the error is
\* logged and the task goes on to save
transformToReceiptData_throws_continue(f) ==
  /\ script = "analyzeReceipts" /\ st[f] = "invoking"
  /\ \E content \in service :
       /\ transformThrows(content)
       /\ payload' = [ payload EXCEPT ![f] = content ]
  /\ st' = [ st EXCEPT ![f] = "saving" ]
  /\ stage' = [ stage EXCEPT ![f] = "transformation" ]
  /\ errorLog' = errorLog \cup {f}
  /\ UNCHANGED << params, transformer, comparator, sink, pc, error, fileNames, batches, i, calls, allResults,
                  results, written, now, startTime, wakeAt, prevStart, lastJoin >>

\* lines 197-198: the payload arrives and transformToReceiptData throws on it
transformToReceiptData_throws(f) ==
  /\ script = "analyzeReceipts" /\ st[f] = "invoking"
  /\ \E content \in service :
       /\ transformThrows(content)
       /\ payload' = [ payload EXCEPT ![f] = content ]
  /\ chainFails(f, "transformation")
  /\ UNCHANGED << params, transformer, comparator, sink, pc, error, fileNames, batches, i, calls, allResults,
                  results, written, now, startTime, wakeAt, prevStart, lastJoin >>

\* lines 197-200: the payload arrives, is transformed, and the save begins
transformToReceiptData_returns(f) ==
  /\ script = "analyzeReceipts" /\ st[f] = "invoking"
  /\ \E content \in service :
       /\ ~transformThrows(content)
       /\ payload' = [ payload EXCEPT ![f] = content ]
  /\ st' = [ st EXCEPT ![f] = "saving" ]
  /\ UNCHANGED << params, transformer, comparator, sink, pc, error, fileNames, batches, i, stage, calls,
                  allResults, results, written, errorLog, now, startTime, wakeAt,
                  prevStart, lastJoin >>

\* lines 167-181 and 202-203: the record file is written, the task fulfils
saveReceiptToJson_returns(f) ==
  /\ script = "analyzeReceipts" /\ st[f] = "saving"
  /\ written' = written \cup { originalName(f) }
  /\ st' = [ st EXCEPT ![f] = "succeeded" ]
  /\ UNCHANGED << params, transformer, comparator, payload, sink, pc, error, fileNames, batches, i, stage, calls,
                  allResults, results, errorLog, now, startTime, wakeAt, prevStart,
                  lastJoin >>

\* saveReceiptToJson_throws without the throw of line 184: the error is
\* logged and the task goes on to return its record
saveReceiptToJson_throws_swallowed(f) ==
  /\ script = "analyzeReceipts" /\ st[f] = "saving"
  /\ st' = [ st EXCEPT ![f] = "succeeded" ]
  /\ UNCHANGED << params, transformer, comparator, payload, sink, pc, error, fileNames, batches, i, stage, calls,
                  allResults, results, written, errorLog, now, startTime, wakeAt,
                  prevStart, lastJoin >>

\* lines 182-185: mkdir or writeFile fails
saveReceiptToJson_throws(f) ==
  /\ script = "analyzeReceipts" /\ st[f] = "saving"
  /\ chainFails(f, "persistence")
  /\ UNCHANGED << params, transformer, comparator, payload, sink, pc, error, fileNames, batches, i, calls, allResults,
                  results, written, now, startTime, wakeAt, prevStart, lastJoin >>

\* lines 193, 211-213 and 247-255: the await of processFilesBatch resumes; the
\* fulfilled values are pushed, the clock is read, the wait is decided
analyzeReceipts_join ==
  /\ script = "analyzeReceipts" /\ pc = "join"
  /\ allSettled(batchAt(i)) # "pending"
  /\ \E d \in 0..MaxWindow :
       LET elapsedTime == (now + d) - startTime
       IN  /\ now' = now + d
           /\ IF allSettled(batchAt(i)) = "rejected"
              THEN /\ pc' = "threw" /\ error' = "item"
                   /\ UNCHANGED << allResults, i, wakeAt, lastJoin >>
              ELSE /\ allResults' = allResults \o fulfilledOf(batchAt(i))
                   /\ error' = error
                   /\ IF mustWait(elapsedTime, rateLimitWindow, i, Len(batches))
                      THEN /\ pc' = "sleep"
                           /\ i' = i
                           /\ wakeAt' = now' + waitTime(elapsedTime, rateLimitWindow)
                           /\ lastJoin' =
                                [ batch |-> i, elapsed |-> elapsedTime,
                                  wait |-> waitTime(elapsedTime, rateLimitWindow) ]
                      ELSE /\ pc' = "loop"
                           /\ i' = i + 1
                           /\ wakeAt' = wakeAt
                           /\ lastJoin' =
                                [ batch |-> i, elapsed |-> elapsedTime, wait |-> 0 ]
  /\ UNCHANGED << params, transformer, comparator, payload, sink, fileNames, batches, st, stage, calls, results, written,
                  errorLog, startTime, prevStart >>

\* a timer that is due and leaves the loop asleep
wait_asleep ==
  /\ pc = "sleep"
  /\ now' = Max(now, wakeAt)
  /\ UNCHANGED << params, transformer, comparator, payload, sink, pc, i, error, fileNames, batches, st, stage, calls,
                  allResults, results, written, errorLog, startTime, wakeAt, prevStart,
                  lastJoin >>

\* line 223: the timer fires, not before it is due; the loop goes on (i++)
wait ==
  /\ pc = "sleep"
  /\ \E late \in Late : now' = Max(now, wakeAt) + late
  /\ pc' = "loop"
  /\ i' = i + 1
  /\ UNCHANGED << params, transformer, comparator, payload, sink, error, fileNames, batches, st, stage, calls, allResults,
                  results, written, errorLog, startTime, wakeAt, prevStart, lastJoin >>

\* line 258 / line 175: the loop is over, the run returns its results
return ==
  /\ pc = "loop" /\ i >= Len(batches)
  /\ pc' = "returned"
  /\ UNCHANGED << params, transformer, comparator, payload, sink, error, fileNames, batches, i, st, stage, calls,
                  allResults, results, written, errorLog, now, startTime, wakeAt,
                  prevStart, lastJoin >>

(* ------------------------------ processOCR ----------------------------- *)
\* line 121: readdir fails; the catch of lines 170-173 rethrows
processOCR_readdirFails ==
  /\ script = "processOCR" /\ pc = "entry"
  /\ pc' = "threw" /\ error' = "readdir"
  /\ UNCHANGED << params, transformer, comparator, payload, sink, fileNames, batches, i, st, stage, calls, allResults,
                  results, written, errorLog, now, startTime, wakeAt, prevStart, lastJoin >>

\* lines 118-137: list, cap with limit, cut into chunks
processOCR ==
  /\ script = "processOCR" /\ pc = "entry"
  /\ fileNames' = filesToProcess(targetFiles, limit)
  /\ batches' = chunksFrom(fileNames', 0, OcrChunkSize)
  /\ pc' = "loop"
  /\ UNCHANGED << params, transformer, comparator, payload, sink, error, i, st, stage, calls, allResults, results,
                  written, errorLog, now, startTime, wakeAt, prevStart, lastJoin >>

\* lines 141-161: every file of the chunk is handed to chunkLimit, which queues it
processOCR_chunk ==
  /\ script = "processOCR" /\ pc = "loop" /\ i < Len(batches)
  /\ startTime' = now
  /\ prevStart' = startTime
  /\ st' = [ f \in FILES |-> IF f \in Range(batchAt(i)) THEN "queued" ELSE st[f] ]
  /\ pc' = "join"
  /\ UNCHANGED << params, transformer, comparator, payload, sink, error, fileNames, batches, i, stage, calls, allResults,
                  results, written, errorLog, now, wakeAt, lastJoin >>

\* the tasks chunkLimit is running
activeCount == Cardinality({ f \in FILES : st[f] = "invoking" })

\* line 150: chunkLimit starts the oldest queued task while fewer than
\* OcrConcurrency run: analyzeImage(filePath) is called
chunkLimit(k) ==
  /\ script = "processOCR" /\ pc = "join"
  /\ k \in 1..Len(batchAt(i))
  /\ st[batchAt(i)[k]] = "queued"
  /\ \A j \in 1..(k - 1) : st[batchAt(i)[j]] # "queued"
  /\ activeCount < OcrConcurrency
  /\ st' = [ st EXCEPT ![batchAt(i)[k]] = "invoking" ]
  /\ calls' = [ calls EXCEPT ![batchAt(i)[k]] = @ + 1 ]
  /\ UNCHANGED << params, transformer, comparator, payload, sink, pc, error, fileNames, batches, i, stage, allResults,
                  results, written, errorLog, now, startTime, wakeAt, prevStart, lastJoin >>

\* analyzeImage_returns flushing all_results.json after every item
analyzeImage_returns_flush(f) ==
  /\ script = "processOCR" /\ st[f] = "invoking"
  /\ results' = MapSet(results, originalName(f), f)
  /\ st' = [ st EXCEPT ![f] = "succeeded" ]
  /\ manifest' = [ exists |-> TRUE, entries |-> fromEntries(results') ]
  /\ UNCHANGED << params, transformer, comparator, payload, pc, error, fileNames, batches, i, stage, calls,
                  allResults, written, errorLog, now, startTime, wakeAt, prevStart,
                  lastJoin, savePos, outputDir, run, prior >>

\* lines 151-154: analyzeImage fulfils, .then stores the record under its name
analyzeImage_returns(f) ==
  /\ script = "processOCR" /\ st[f] = "invoking"
  /\ results' = MapSet(results, originalName(f), f)
  /\ st' = [ st EXCEPT ![f] = "succeeded" ]
  /\ UNCHANGED << params, transformer, comparator, payload, sink, pc, error, fileNames, batches, i, stage, calls,
                  allResults, written, errorLog, now, startTime, wakeAt, prevStart,
                  lastJoin >>

\* lines 111-114 and 155-157: the service call (s = "invocation") or JSON.parse
\* (s = "transformation") fails inside analyzeImage; .catch logs it
analyzeImage_throws(f) ==
  /\ script = "processOCR" /\ st[f] = "invoking"
  /\ \E s \in {"invocation", "transformation"} : chainFails(f, s)
  /\ UNCHANGED << params, transformer, comparator, payload, sink, pc, error, fileNames, batches, i, calls, allResults,
                  results, written, now, startTime, wakeAt, prevStart, lastJoin >>

\* lines 161-167: the await of Promise.all resumes; a rejection would be
\* rethrown by the catch of lines 170-173; else the fixed wait is decided
processOCR_join ==
  /\ script = "processOCR" /\ pc = "join"
  /\ PromiseAll(batchAt(i)) # "pending"
  /\ \E d \in 0..MaxWindow :
       /\ now' = now + d
       /\ IF PromiseAll(batchAt(i)) = "rejected"
          THEN /\ pc' = "threw" /\ error' = "item"
               /\ UNCHANGED << i, wakeAt, lastJoin >>
          ELSE /\ error' = error
               /\ IF ocrMustWait(i, Len(batches))
                  THEN /\ pc' = "sleep"
                       /\ i' = i
                       /\ wakeAt' = now' + OcrWait
                       /\ lastJoin' =
                            [ batch |-> i, elapsed |-> now' - startTime,
                              wait |-> OcrWait ]
                  ELSE /\ pc' = "loop"
                       /\ i' = i + 1
                       /\ wakeAt' = wakeAt
                       /\ lastJoin' =
                            [ batch |-> i, elapsed |-> now' - startTime, wait |-> 0 ]
  /\ UNCHANGED << params, transformer, comparator, payload, sink, fileNames, batches, st, stage, calls, allResults,
                  results, written, errorLog, startTime, prevStart >>

(* --------------------------- main, processOCR -------------------------- *)
\* lines 222-223 and 196-201: processOCR has returned; saveOCRResults names
\* its directory after the clock and creates it
saveOCRResults ==
  /\ script = "processOCR" /\ pc = "returned"
  /\ outputDir' = << timestamp(now) >>
  /\ savePos' = 0
  /\ pc' = "save"
  /\ UNCHANGED << params, transformer, comparator, payload, error, fileNames, batches, i, st, stage, calls,
                  allResults, results, written, errorLog, now, startTime, wakeAt,
                  prevStart, lastJoin, manifest, run, prior >>

\* the rejection of an await of saveOCRResults reaches the catch of main
\* (lines 226-228): console.error, process.exit(1)
saveFails(e) ==
  /\ pc' = "exited" /\ error' = e
  /\ UNCHANGED << params, transformer, comparator, payload, fileNames, batches, i, st, stage, calls, allResults,
                  results, written, errorLog, now, startTime, wakeAt, prevStart,
                  lastJoin, savePos, manifest, outputDir, run, prior >>

\* line 201: mkdir fails
saveOCRResults_mkdirFails ==
  /\ script = "processOCR" /\ pc = "returned"
  /\ saveFails("mkdir")

\* lines 203-210: the next entry of results, in the Map's order, is written
writeFile_returns ==
  /\ script = "processOCR" /\ pc = "save" /\ savePos < Len(results)
  /\ written' = written \cup { results[savePos + 1][1] }
  /\ savePos' = savePos + 1
  /\ UNCHANGED << params, transformer, comparator, payload, pc, error, fileNames, batches, i, st, stage, calls,
                  allResults, results, errorLog, now, startTime, wakeAt, prevStart,
                  lastJoin, manifest, outputDir, run, prior >>

\* lines 205-209: writeFile of an entry fails; nothing catches it in the loop
writeFile_throws ==
  /\ script = "processOCR" /\ pc = "save" /\ savePos < Len(results)
  /\ saveFails("writeFile")

\* lines 212-217: after the loop all_results.json is written; main logs success
writeManifest_returns ==
  /\ script = "processOCR" /\ pc = "save" /\ savePos = Len(results)
  /\ manifest' = [ exists |-> TRUE, entries |-> fromEntries(results) ]
  /\ pc' = "completed"
  /\ UNCHANGED << params, transformer, comparator, payload, error, fileNames, batches, i, st, stage, calls,
                  allResults, results, written, errorLog, now, startTime, wakeAt,
                  prevStart, lastJoin, savePos, outputDir, run, prior >>

\* lines 213-217: writeFile of all_results.json fails
writeManifest_throws ==
  /\ script = "processOCR" /\ pc = "save" /\ savePos = Len(results)
  /\ saveFails("writeManifest")

\* lines 226-228: processOCR was rejected; main logs it and exits with 1
main_catch ==
  /\ script = "processOCR" /\ pc = "threw"
  /\ pc' = "exited"
  /\ UNCHANGED << params, transformer, comparator, payload, sink, error, fileNames, batches, i, st, stage, calls,
                  allResults, results, written, errorLog, now, startTime, wakeAt,
                  prevStart, lastJoin >>

(* ---------------------------- specification ---------------------------- *)
Next ==
  \/ analyzeReceipts
  \/ processFilesBatch
  \/ \E f \in FILES : inferenceByOpenAI_rejects(f)
  \/ \E f \in FILES : transformToReceiptData_throws(f)
  \/ \E f \in FILES : transformToReceiptData_returns(f)
  \/ \E f \in FILES : saveReceiptToJson_returns(f)
  \/ \E f \in FILES : saveReceiptToJson_throws(f)
  \/ analyzeReceipts_join
  \/ wait
  \/ return
  \/ processOCR_readdirFails
  \/ processOCR
  \/ processOCR_chunk
  \/ \E k \in 1..MaxFiles : chunkLimit(k)
  \/ \E f \in FILES : analyzeImage_returns(f)
  \/ \E f \in FILES : analyzeImage_throws(f)
  \/ processOCR_join
  \/ saveOCRResults
  \/ saveOCRResults_mkdirFails
  \/ writeFile_returns
  \/ writeFile_throws
  \/ writeManifest_returns
  \/ writeManifest_throws
  \/ main_catch

Spec == Init /\ [][Next]_vars

(* ------------------------------ a re-run ------------------------------ *)
\* the record files of this run, as paths
recordFiles ==
  IF outputDir = << >> THEN {}
  ELSE { outputPath(outputDir[1], fileName) : fileName \in written }

\* every record file on the disk
Disk == prior.files \cup recordFiles

\* the script is started again over the same input after a run in which
\* nothing failed.  The clock of the model is read from the start of the run
\* under way, so the directory of the earlier run keeps its distance to it:
\* gap is the time between the end of the first run and the start of the second
rerun ==
  /\ run = 1 /\ error = "none" /\ errorLog = {}
  /\ pc = IF script = "analyzeReceipts" THEN "returned" ELSE "completed"
  /\ \E gap \in Late :
       LET shifted == IF script = "analyzeReceipts" THEN outputDir[1]
                      ELSE outputDir[1] - (now + gap)
       IN  prior' = [ dirs |-> { shifted },
                      files |-> { outputPath(shifted, fileName) : fileName \in written },
                      manifests |-> IF manifest.exists THEN { shifted } ELSE {} ]
  /\ run' = 2
  /\ pc' = "entry"
  /\ error' = "none"
  /\ fileNames' = << >>
  /\ batches' = << >>
  /\ i' = 0
  /\ st' = [ f \in FILES |-> "pending" ]
  /\ stage' = [ f \in FILES |-> "none" ]
  /\ calls' = [ f \in FILES |-> 0 ]
  /\ allResults' = << >>
  /\ results' = << >>
  /\ written' = {}
  /\ errorLog' = {}
  /\ now' = 0
  /\ startTime' = 0
  /\ wakeAt' = 0
  /\ prevStart' = 0
  /\ lastJoin' = [ batch |-> 0 - 1, elapsed |-> 0, wait |-> 0 ]
  /\ savePos' = 0
  /\ manifest' = NoManifest
  /\ outputDir' = IF script = "analyzeReceipts" THEN outputDir ELSE << >>
  /\ payload' = [ f \in FILES |-> "none" ]
  /\ UNCHANGED << params, transformer, comparator >>

RerunNext == Next \/ rerun

RerunSpec == Init /\ [][RerunNext]_vars

\* the runs of the scenario: five items (for analyzeReceipts in batches of
\* two, with no rate-limit window)
ScenarioInputs ==
  /\ service = PlainAnswers
  /\ \/ analyzeReceiptsCall(ScenarioItems, 2, 0)
     \/ processOCRCall(Listing(ScenarioItems, 0), << >>)

\* runs in which the service gives every answer that is told apart
PayloadInputs ==
  /\ service = Payloads
  /\ \/ \E n \in 0..MaxFiles, size \in 1..MaxBatch : analyzeReceiptsCall(n, size, 0)
     \/ \E n \in 0..MaxFiles : processOCRCall(Listing(n, 0), << >>)

PayloadInit == PayloadInputs /\ Start /\ NoComparison /\ NoTransform

PayloadSpec == PayloadInit /\ [][Next]_vars

ScenarioInit == ScenarioInputs /\ Start /\ NoComparison /\ NoTransform

ScenarioSpec == ScenarioInit /\ [][Next]_vars

(* ------------------------- vocabulary of the claims -------------------- *)
\* the batch size and the rate-limit window of the running script
BatchSize == IF script = "analyzeReceipts" THEN batchSize ELSE OcrChunkSize

Window == IF script = "analyzeReceipts" THEN rateLimitWindow ELSE OcrWait

\* the scheduler has run: fileNames and batches are those of this run
Scheduled ==
  \/ pc \in {"loop", "join", "sleep", "returned", "save", "completed"}
  \/ pc = "exited" /\ error \in {"mkdir", "writeFile", "writeManifest"}

RECURSIVE Concat(_)
Concat(ss) == IF ss = << >> THEN << >> ELSE Head(ss) \o Concat(Tail(ss))

Terminal(f) == st[f] \in {"succeeded", "failed"}

\* the work items the scheduler has put in a batch
Batched == UNION { Range(batches[k]) : k \in 1..Len(batches) }

\* the identifiers that have an entry in the run's result
ResultNames ==
  IF script = "analyzeReceipts"
  THEN { originalName(f) : f \in Range(allResults) }
  ELSE { results[k][1] : k \in 1..Len(results) }

\* the work items of this run whose chain has succeeded
Succeeded == { f \in Batched : st[f] = "succeeded" }

SucceededIds == { originalName(f) : f \in Succeeded }

FailedIds == { originalName(f) : f \in { g \in Batched : st[g] = "failed" } }

\* the identifiers that have an entry in the consolidated manifest
ManifestIds == { e[1] : e \in manifest.entries }

\* the work items handed to the invoker and not yet in a terminal state
InFlight == { f \in FILES : st[f] \in {"invoking", "saving"} }

\* the state of the work item's state machine that a position of its chain
\* belongs to: an item handed to chunkLimit or to the invoker is in flight
phase(position) ==
  CASE position = "pending" -> "Pending"
    [] position \in {"queued", "invoking", "saving"} -> "InFlight"
    [] position = "succeeded" -> "Succeeded"
    [] position = "failed" -> "Failed"

\* the run of the script is over, normally or not
Finished ==
  IF script = "analyzeReceipts" THEN pc \in {"returned", "threw"}
  ELSE pc \in {"completed", "exited"}

\* the 1-based number of the batch file f is in (0: in none)
BatchNo(f) ==
  IF \E k \in 1..Len(batches) : f \in Range(batches[k])
  THEN CHOOSE k \in 1..Len(batches) : f \in Range(batches[k])
  ELSE 0

(* -------------------------------- claims ------------------------------- *)
\* C1: for a positive batch size B and N items the scheduler yields exactly
\* ceil(N/B) batches (the least m with m * B >= N), and the batches
\* concatenated in index order are the input sequence
C1_ChunkPartition ==
  (Scheduled /\ BatchSize > 0) =>
     /\ Len(batches) * BatchSize >= Len(fileNames)
     /\ (Len(batches) - 1) * BatchSize < Len(fileNames)
     /\ Concat(batches) = fileNames

\* C1 witness: three items cut with B = 2 into a full and a partial batch
C1_Witness ==
  /\ script = "analyzeReceipts" /\ pc = "returned"
  /\ Len(fileNames) = 3 /\ batchSize = 2
  /\ Len(batches) = 2 /\ Len(batches[2]) = 1

\* C2: for a positive batch size B every batch but the last has exactly B
\* items and the last has between 1 and B items
C2_BatchSizes ==
  (Scheduled /\ BatchSize > 0) =>
     \A k \in 1..Len(batches) :
        /\ Len(batches[k]) >= 1
        /\ Len(batches[k]) <= BatchSize
        /\ k < Len(batches) => Len(batches[k]) = BatchSize

\* C2 witness: a run whose last batch is partial after a full one
C2_Witness ==
  /\ Scheduled /\ BatchSize > 1
  /\ Len(batches) >= 2
  /\ Len(batches[1]) = BatchSize
  /\ Len(batches[Len(batches)]) < BatchSize

\* C3 (as claimed): with batchSize <= 0 the run fails before any work, for any
\* number of items: it never enters the loop or returns, and no file is invoked
C3_InvalidConfiguration ==
  (script = "analyzeReceipts" /\ batchSize <= 0 /\ pc # "entry") =>
     /\ pc = "threw"
     /\ \A f \in FILES : calls[f] = 0

\* C4: the invoker is called at most once for every file, whatever fails
C4_AtMostOnce == \A f \in FILES : calls[f] <= 1

\* C4 witness: a file of the first batch failed at invocation, the run went
\* through a later batch and returned, and the file was called once
C4_Witness ==
  /\ pc = "returned" /\ Len(batches) >= 2
  /\ \E f \in Range(batches[1]) :
       st[f] = "failed" /\ stage[f] = "invocation" /\ calls[f] = 1

\* C5: when the run has returned, every file whose chain succeeded has its entry
\* in the succeeded results, whatever files failed in its batch or in another
C5_SiblingsKept ==
  pc = "returned" =>
     \A f \in Range(fileNames) :
        st[f] = "succeeded" =>
           IF script = "analyzeReceipts"
           THEN f \in Range(allResults)
           ELSE \E k \in 1..Len(results) :
                   /\ results[k][1] = originalName(f)
                   /\ st[results[k][2]] = "succeeded"
                   /\ originalName(results[k][2]) = originalName(f)

\* C5 witness: the invoker failed for one file of a batch and a sibling of the
\* same batch succeeded
C5_Witness ==
  /\ pc = "returned"
  /\ \E f, g \in Range(fileNames) :
       /\ BatchNo(f) = BatchNo(g)
       /\ stage[f] = "invocation" /\ st[f] = "failed"
       /\ st[g] = "succeeded"

\* C6 (as claimed): when the run has returned, every work item has an entry in
\* the result, as a succeeded record or as a failed identifier with its error
C6_EveryItemInResult ==
  pc = "returned" =>
     \A f \in Range(fileNames) : originalName(f) \in ResultNames

\* C6 (amended): when the run has returned every work item that was put in a
\* batch (with a positive batch size: every item of the input) has settled as
\* exactly one of succeeded and failed; the result holds the entries of the
\* succeeded items and nothing else, and a failed item is recorded in the
\* console log only
C6_SettledAndLogged ==
  pc = "returned" =>
     /\ BatchSize > 0 => Batched = Range(fileNames)
     /\ \A f \in Batched :
          /\ Terminal(f)
          /\ f \in errorLog <=> st[f] = "failed"
          /\ st[f] = "failed" <=> stage[f] # "none"
     /\ ResultNames =
          { originalName(f) : f \in { g \in Batched : st[g] = "succeeded" } }
     /\ script = "analyzeReceipts" =>
          /\ Range(allResults) = { f \in Batched : st[f] = "succeeded" }
          /\ Len(allResults) = Cardinality(Range(allResults))
     /\ script = "processOCR" =>
          /\ \A k \in 1..Len(results) :
               /\ st[results[k][2]] = "succeeded"
               /\ originalName(results[k][2]) = results[k][1]
          /\ \A j, k \in 1..Len(results) : results[j][1] = results[k][1] => j = k

\* C6 witness: a run that returned with a failed and a succeeded item
C6_Witness ==
  /\ pc = "returned"
  /\ \E f, g \in Batched : st[f] = "failed" /\ st[g] = "succeeded"

C8_BatchesSequential ==
  \A j, k \in 1..Len(batches) :
     (j < k /\ \E g \in Range(batches[k]) : st[g] # "pending" \/ calls[g] > 0)
        => \A f \in Range(batches[j]) : Terminal(f)

\* C8 witness: an item of batch K failed while a sibling was still in flight
\* (the controller stayed at the join), and later an item of batch K+1 runs
C8_WitnessWaiting ==
  /\ pc = "join"
  /\ \E f, g \in Range(batchAt(i)) : st[f] = "failed" /\ ~Terminal(g)

C8_Witness ==
  \E f, g, h \in Range(fileNames) :
     /\ BatchNo(f) = BatchNo(g) /\ f # g
     /\ BatchNo(h) = BatchNo(f) + 1
     /\ st[f] = "failed" /\ st[g] = "succeeded"
     /\ st[h] = "invoking"

\* C9: when a batch settled in less than the window W, the next batch starts at
\* least W after it started; and no wait follows the final batch: the run is
\* never asleep then, and no time passes between its join and the return
C9_StartGap ==
  /\ (pc = "join" /\ i >= 1 /\ lastJoin.batch = i - 1 /\ lastJoin.elapsed < Window)
       => startTime - prevStart >= Window
  /\ pc = "sleep" => i < Len(batches) - 1
  /\ (Scheduled /\ Len(batches) > 0 /\ lastJoin.batch = Len(batches) - 1) =>
       /\ lastJoin.wait = 0
       /\ pc \in {"loop", "returned", "save", "completed", "exited"}
       /\ now = startTime + lastJoin.elapsed

\* C9 witness: a batch settled in less than W > 0 and the next one has started
C9_Witness ==
  /\ pc = "join" /\ i >= 1 /\ lastJoin.batch = i - 1
  /\ Window > 0 /\ lastJoin.elapsed < Window
  /\ startTime - prevStart >= Window

\* C10 (as claimed): after each non-final batch the controller sleeps for
\* exactly max(0, window - elapsed)
C10_SleepsRemainder ==
  (Scheduled /\ lastJoin.batch >= 0 /\ lastJoin.batch < Len(batches) - 1) =>
     lastJoin.wait = Max(0, Window - lastJoin.elapsed)

\* C10 (amended): after each non-final batch analyzeReceipts sleeps for exactly
\* max(0, window - elapsed), with no sleep when elapsed >= window, and
\* processOCR sleeps for its whole fixed window whatever time has elapsed; the
\* sleep is never negative and never longer than the window, and the timer is
\* set to that duration from the moment the batch was joined
C10_SleepPerScript ==
  (Scheduled /\ lastJoin.batch >= 0 /\ lastJoin.batch < Len(batches) - 1) =>
     /\ script = "analyzeReceipts" =>
          /\ lastJoin.wait = Max(0, rateLimitWindow - lastJoin.elapsed)
          /\ lastJoin.elapsed >= rateLimitWindow => lastJoin.wait = 0
     /\ script = "processOCR" => lastJoin.wait = OcrWait
     /\ lastJoin.wait >= 0
     /\ lastJoin.wait <= Window
     /\ pc = "sleep" =>
          /\ lastJoin.batch = i
          /\ lastJoin.wait > 0
          /\ wakeAt = startTime + lastJoin.elapsed + lastJoin.wait

\* C10 witness: analyzeReceipts asleep for a remainder shorter than its window
C10_Witness ==
  /\ script = "analyzeReceipts" /\ pc = "sleep"
  /\ lastJoin.elapsed > 0
  /\ lastJoin.wait = rateLimitWindow - lastJoin.elapsed

\* C10 witness of the other case: a non-final batch took the whole window and
\* analyzeReceipts went on without sleeping
C10_WitnessNoSleep ==
  /\ script = "analyzeReceipts" /\ pc = "loop"
  /\ lastJoin.batch >= 0 /\ lastJoin.batch < Len(batches) - 1
  /\ rateLimitWindow > 0 /\ lastJoin.elapsed >= rateLimitWindow
  /\ lastJoin.wait = 0

\* C11 (as claimed, for the script that writes a manifest): when main of
\* processOCR is over, the identifiers in all_results.json are exactly the
\* identifiers of the succeeded items
C11_ManifestIsSucceeded ==
  (script = "processOCR" /\ Finished) => ManifestIds = SucceededIds

\* C12 (as claimed): between two batches and during the rate-limit sleep every
\* item that has already succeeded has its entry in the persisted manifest
C12_ManifestFresh ==
  pc \in {"loop", "sleep"} => SucceededIds \subseteq ManifestIds

\* C12 (amended): the manifest is written once, at the end: no manifest exists
\* while batches run or the controller sleeps; all_results.json exists exactly
\* when main has completed, it is written after every record file of the run,
\* and it then has an entry for exactly the identifiers of the succeeded items
C12_ManifestAtEnd ==
  /\ manifest.exists <=> pc = "completed"
  /\ ~manifest.exists => manifest.entries = {}
  /\ manifest.exists =>
       /\ script = "processOCR"
       /\ ManifestIds = SucceededIds
       /\ ManifestIds \subseteq written
       /\ savePos = Len(results)

\* C12 witness: main completed a run of several batches: an item of the first
\* batch succeeded, and the manifest written at the end holds it
C12_Witness ==
  /\ pc = "completed" /\ Len(batches) >= 2
  /\ \E f \in Range(batches[1]) :
       st[f] = "succeeded" /\ originalName(f) \in ManifestIds

\* C12 witness of the run under way: the controller sleeps after a batch with
\* a succeeded item and there is no manifest
C12_WitnessSleep ==
  /\ script = "processOCR" /\ pc = "sleep"
  /\ \E f \in Range(batches[1]) : st[f] = "succeeded"
  /\ ~manifest.exists

\* C13 (as claimed): the record file of an item is written as soon as its
\* transformation has completed: from the moment an item has succeeded, so at
\* the join of its batch, during the sleep and while a later batch runs, its
\* record file exists
C13_RecordWithItem ==
  \A f \in Succeeded : originalName(f) \in written

C15_SucceededIsTransformed ==
  pc = "returned" =>
     ResultNames =
       { originalName(f) :
           f \in { g \in Batched : stage[g] \notin {"invocation", "transformation"} } }

\* C15 (amended): the result holds exactly the items none of whose stages
\* failed: in analyzeReceipts invocation, transformation and persistence (the
\* record file of every item of the result is written, and an item whose save
\* failed is left out), in processOCR invocation and parsing; an item with a
\* failed stage is in no result, it is only logged
C15_ResultIsWholeChain ==
  pc = "returned" =>
     /\ ResultNames =
          { originalName(f) : f \in { g \in Batched : stage[g] = "none" } }
     /\ script = "analyzeReceipts" =>
          /\ \A f \in Batched : f \in Range(allResults) <=> stage[f] = "none"
          /\ \A f \in Range(allResults) : originalName(f) \in written
     /\ script = "processOCR" =>
          \A f \in Batched : stage[f] \in {"none", "invocation", "transformation"}
     /\ \A f \in Batched : stage[f] # "none" => f \in errorLog

\* C15 witness: a run returned in which one item failed at persistence,
\* another at transformation, and a third succeeded
C15_Witness ==
  /\ pc = "returned"
  /\ \E f, g, h \in Batched :
       /\ stage[f] = "persistence" /\ stage[g] = "transformation"
       /\ stage[h] = "none" /\ st[h] = "succeeded"

\* C16 (as claimed): a failure to write the record of one item is kept to that
\* item: when the run is over the record file of every other succeeded item
\* is written, and the manifest is written with the other items' entries
C16_WriteFailureIsolated ==
  /\ (script = "analyzeReceipts" /\ Finished) =>
        \A f \in Succeeded : originalName(f) \in written
  /\ (script = "processOCR" /\ pc = "exited" /\ error = "writeFile") =>
        LET failedKey == results[savePos + 1][1]
            others == { results[k][1] : k \in 1..Len(results) } \ { failedKey }
        IN  /\ others \subseteq written
            /\ manifest.exists
            /\ others \subseteq ManifestIds

\* the scenario: five items, and the invoker failed for item 3 and nothing else
\* failed until the run was over
OnlyItem3Failed ==
  /\ Finished /\ error = "none"
  /\ Len(fileNames) = ScenarioItems
  /\ \A f \in Batched : st[f] = "failed" <=> originalName(f) = 3
  /\ \A f \in Batched : st[f] = "failed" => stage[f] = "invocation"

C17_WitnessOCR ==
  /\ script = "processOCR" /\ pc = "completed"
  /\ OnlyItem3Failed

\* a run repeated after a successful run is over, and nothing failed in it
RerunDone ==
  /\ run = 2 /\ error = "none" /\ errorLog = {}
  /\ pc = IF script = "analyzeReceipts" THEN "returned" ELSE "completed"

\* C18 (as claimed): the repeated run writes every record to the path the
\* first run wrote it to, so that afterwards there is exactly one record file
\* for every identifier
C18_SamePathOnRerun ==
  RerunDone =>
     /\ recordFiles = prior.files
     /\ \A p, q \in Disk : p[2] = q[2] => p = q

\* C18 (amended): analyzeReceipts writes the record of an identifier to
\* outputDir/<identifier>.json, so the repeated run overwrites the files of
\* the first and there is one record file for every identifier; main of
\* processOCR writes into a directory named after the time of its save, so
\* the repeated run overwrites the files of the first only when both saves
\* have the same timestamp, and otherwise leaves them in place and writes a
\* second record file for every identifier
C18_PathOfRerun ==
  RerunDone =>
     /\ script = "analyzeReceipts" =>
          /\ recordFiles = prior.files
          /\ \A p, q \in Disk : p[2] = q[2] => p = q
     /\ script = "processOCR" =>
          /\ outputDir = << timestamp(now) >>
          /\ { p[2] : p \in recordFiles } = { p[2] : p \in prior.files }
          /\ IF outputDir[1] \in prior.dirs
             THEN recordFiles = prior.files
             ELSE /\ recordFiles \cap prior.files = {}
                  /\ \A p \in recordFiles : \E q \in prior.files : q[2] = p[2] /\ q # p

\* C18 witness: analyzeReceipts has run twice over several items
C18_Witness ==
  /\ RerunDone /\ script = "analyzeReceipts"
  /\ Cardinality(recordFiles) >= 2

\* C18 witness for processOCR: after the repeated run two directories hold a
\* record of the same identifier
C18_WitnessOCR ==
  /\ RerunDone /\ script = "processOCR"
  /\ \E p, q \in Disk : p[2] = q[2] /\ p # q

\* C18 witness for processOCR, both saves of the same timestamp
C18_WitnessSameSecond ==
  /\ RerunDone /\ script = "processOCR"
  /\ recordFiles # {} /\ recordFiles = prior.files

\* C19 (as claimed): the cap on the number of items holds for every value
\* >= 0: the run enumerates the first min(cap, available) items of the ordered
\* input, and with a cap of 0 it enumerates no item and calls the invoker for none
C19_MaxItemsCaps ==
  /\ (script = "processOCR" /\ Len(limit) = 1 /\ Scheduled) =>
        /\ fileNames = SubSeq(targetFiles, 1, Min(limit[1], Len(targetFiles)))
        /\ limit[1] = 0 => \A f \in FILES : calls[f] = 0
  /\ (script = "analyzeReceipts" /\ Scheduled) =>
        /\ fileNames = generatedNames(maxFiles)
        /\ maxFiles = 0 => \A f \in FILES : calls[f] = 0

\* C20 (as claimed): two distinct work items of a run never have the same
\* identifier, the same key in the result or the same output path, so the
\* result holds one record for every succeeded item
C20_IdentifiersUnique ==
  Scheduled =>
     /\ \A j, k \in 1..Len(fileNames) :
          j # k =>
            /\ originalName(fileNames[j]) # originalName(fileNames[k])
            /\ outputPath(0, originalName(fileNames[j]))
                 # outputPath(0, originalName(fileNames[k]))
     /\ script = "processOCR" => Len(results) = Cardinality(Succeeded)

C22_ChainOrder ==
  /\ [](\A n \in written :
          \E f \in Batched :
             originalName(f) = n /\ st[f] = "succeeded" /\ stage[f] = "none")
  /\ [](script = "analyzeReceipts" =>
          \A f \in Batched :
             stage[f] \in {"invocation", "transformation"} =>
                originalName(f) \notin written)
  /\ [][ /\ \A f \in FILES :
             /\ (st'[f] = "saving" /\ st[f] # "saving") =>
                   (st[f] = "invoking" /\ calls[f] = 1)
             /\ (stage'[f] = "transformation" /\ stage[f] = "none") =>
                   (st[f] = "invoking" /\ calls[f] = 1)
             /\ (stage'[f] = "persistence" /\ stage[f] = "none") => st[f] = "saving"
         /\ written' # written =>
               IF script = "analyzeReceipts"
               THEN \E f \in FILES :
                       /\ st[f] = "saving" /\ st'[f] = "succeeded"
                       /\ written' = written \cup { originalName(f) }
               ELSE pc = "save" ]_vars

\* C22 witness: in one run an item failed at invocation, another at
\* transformation, and the record file of a third is written
C22_Witness ==
  /\ script = "analyzeReceipts"
  /\ \E f, g, h \in Batched :
       /\ stage[f] = "invocation" /\ stage[g] = "transformation"
       /\ st[h] = "succeeded" /\ originalName(h) \in written
       /\ originalName(f) \notin written /\ originalName(g) \notin written

\* the payloads transformToReceiptData cannot interpret
Malformed == {"not JSON", "null", "empty array"}

\* C23: an item whose invocation returned a payload that does not parse, or
\* parses to null or to an empty array, is Failed at transformation after its
\* one invocation: it is not in the succeeded results and has no record file;
\* and when the run has returned, every item whose payload held entries and
\* whose save did not fail is in the results and has its record file
C23_MalformedPayloadFails ==
  /\ \A f \in Batched :
       payload[f] \in Malformed =>
          /\ st[f] = "failed" /\ stage[f] = "transformation"
          /\ calls[f] = 1
          /\ f \in errorLog
          /\ f \notin Range(allResults)
          /\ originalName(f) \notin written
  /\ \A f \in Batched :
       payload[f] = "entries" => stage[f] \in {"none", "persistence"}
  /\ pc = "returned" =>
       \A g \in Batched :
          (payload[g] = "entries" /\ stage[g] = "none") =>
             /\ g \in Range(allResults)
             /\ originalName(g) \in written

\* C23 witness: the payload of one item of a batch was an empty array, that of
\* a sibling held entries, and the run returned with the sibling's record
C23_Witness ==
  /\ pc = "returned"
  /\ \E k \in 1..Len(batches) :
       \E f, g \in Range(batches[k]) :
          /\ payload[f] = "empty array" /\ st[f] = "failed"
          /\ payload[g] = "entries" /\ g \in Range(allResults)

\* C24 (as claimed): the result and the manifest do not depend on the order in
\* which the items of a batch complete.  Two interleavings with the same
\* outcomes differ by exchanges of two completions that follow each other, so
\* the claim is: whenever two items are both under way and both succeed, the
\* accumulator, and with it the manifest written from it, is the same
\* whichever of the two completes first
C24_CompletionOrderIrrelevant ==
  \A f, g \in FILES :
     (script = "processOCR" /\ f # g /\ st[f] = "invoking" /\ st[g] = "invoking") =>
        fromEntries(MapSet(MapSet(results, originalName(f), f), originalName(g), g))
          = fromEntries(MapSet(MapSet(results, originalName(g), g), originalName(f), f))

\* the two manifests of C24's failing input: main has completed with 1.pdf and
\* 1.png both succeeded, and all_results.json holds the record of 1.pdf
C24_ManifestOfPdf ==
  /\ pc = "completed"
  /\ st[File(1, "pdf")] = "succeeded" /\ st[File(1, "png")] = "succeeded"
  /\ << 1, File(1, "pdf") >> \in manifest.entries

\* ... or, after the other completion order, the record of 1.png
C24_ManifestOfPng ==
  /\ pc = "completed"
  /\ st[File(1, "pdf")] = "succeeded" /\ st[File(1, "png")] = "succeeded"
  /\ << 1, File(1, "png") >> \in manifest.entries

(* ------------------------------ progress ------------------------------ *)
\* the steps of the run's own code: the continuations the event loop resumes
\* as soon as what they await has settled (part_000:243-258, ocr:141-175, 220-230)
controller ==
  \/ analyzeReceipts \/ processFilesBatch \/ analyzeReceipts_join \/ return
  \/ processOCR_readdirFails \/ processOCR \/ processOCR_chunk
  \/ (\E k \in 1..MaxFiles : chunkLimit(k)) \/ processOCR_join
  \/ saveOCRResults \/ saveOCRResults_mkdirFails \/ main_catch

\* the steps of the chains of the items: the service and the file system
\* answer every call, with a value or with an error
settle ==
  \/ \E f \in FILES :
        \/ inferenceByOpenAI_rejects(f)
        \/ transformToReceiptData_throws(f) \/ transformToReceiptData_returns(f)
        \/ saveReceiptToJson_returns(f) \/ saveReceiptToJson_throws(f)
        \/ analyzeImage_returns(f) \/ analyzeImage_throws(f)
  \/ writeFile_returns \/ writeFile_throws
  \/ writeManifest_returns \/ writeManifest_throws

\* a run in which the event loop resumes what is ready, every call is
\* answered, and the timer of setTimeout fires
LiveInputs ==
  /\ service = PlainAnswers
  /\ \/ \E size \in {MaxBatch - 1, MaxBatch}, window \in {0, MaxWindow} :
          analyzeReceiptsCall(MaxFiles, size, window)
     \/ processOCRCall(Listing(MaxFiles, 0), << >>)

LiveInit == LiveInputs /\ Start /\ NoComparison /\ NoTransform

LiveSpec ==
  LiveInit /\ [][Next]_vars /\ WF_vars(controller) /\ WF_vars(settle) /\ WF_vars(wait)

\* batch k of the run has been started: none of its items is pending
Started(k) == k <= Len(batches) /\ \A f \in Range(batches[k]) : st[f] # "pending"

\* the run has its final result: the loop is over and every item has settled
Finalized ==
  /\ pc \in {"returned", "save", "completed", "exited"}
  /\ i = Len(batches)
  /\ \A f \in Batched : Terminal(f)

\* C25: when every call is answered, the run terminates; once it has formed its
\* batches it reaches its final result with every item settled, every batch is
\* started, every join completes and every sleep ends
C25_RunTerminates ==
  /\ <>Finished
  /\ Scheduled ~> Finalized
  /\ \A k \in 1..Max(MaxFiles, ScenarioItems) :
        (Scheduled /\ k <= Len(batches)) ~> Started(k)
  /\ (pc = "join") ~> (pc # "join")
  /\ (pc = "sleep") ~> (pc = "loop")

\* C25 witness: a run of several batches that slept between two of them has
\* reached its final result with every item settled
C25_Witness ==
  /\ Finalized /\ Finished
  /\ Len(batches) >= 2 /\ wakeAt > 0
  /\ \E f \in Batched : st[f] = "failed"

\* C26: within a run the persisted outputs only grow: no step removes a record
\* file or a manifest entry, no step writes a record file over one the run has
\* written (so none is replaced with the record of another item), and the
\* manifest, once written, is not written again
C26_OutputsOnlyGrow ==
  [][ /\ written \subseteq written'
      /\ manifest.entries \subseteq manifest'.entries
      /\ manifest.exists => manifest' = manifest
      /\ \A f \in FILES :
           (script = "analyzeReceipts" /\ st[f] = "saving" /\ st'[f] = "succeeded") =>
              /\ originalName(f) \notin written
              /\ written' = written \cup { originalName(f) }
      /\ savePos' # savePos =>
           /\ savePos' = savePos + 1
           /\ results[savePos'][1] \notin written
           /\ written' = written \cup { results[savePos'][1] }
    ]_vars

\* C26 witness: 1.pdf and 1.png both succeeded, and main has written the record
\* files of two identifiers and the manifest after them
C26_Witness ==
  /\ pc = "completed" /\ manifest.exists
  /\ st[File(1, "pdf")] = "succeeded" /\ st[File(1, "png")] = "succeeded"
  /\ Cardinality(written) >= 2 /\ Cardinality(manifest.entries) >= 2

\* C27 (as claimed): the manifest is written by one step of main, after the
\* loop over the record files, so no two writes of it are under way at once;
\* and every item that succeeded has exactly one entry in the accumulator, its
\* own: no insert is lost and none is made twice
C27_InsertedOnce ==
  /\ manifest.exists => (pc = "completed" /\ savePos = Len(results))
  /\ script = "processOCR" =>
       \A f \in FILES :
          st[f] = "succeeded" =>
             Cardinality({ k \in 1..Len(results) :
                             results[k] = << originalName(f), f >> }) = 1
  /\ (script = "analyzeReceipts" /\ pc = "returned") =>
       \A f \in FILES :
          st[f] = "succeeded" =>
             Cardinality({ k \in 1..Len(allResults) : allResults[k] = f }) = 1

\* C28: analyzeReceipts keeps the order of its input: the records it has
\* collected are at every moment in the order of fileNames, whatever the order
\* in which the tasks completed, and the list it returns is fileNames without
\* the items that did not succeed, as long as the number of succeeded items
C28_InputOrder ==
  script = "analyzeReceipts" =>
     /\ \A j, k \in 1..Len(allResults) :
          j < k => allResults[j].name < allResults[k].name
     /\ pc = "join" =>
          \A f \in Range(batchAt(i)) : f \notin Range(allResults)
     /\ pc = "returned" =>
          /\ allResults = SelectSeq(fileNames, LAMBDA f : st[f] = "succeeded")
          /\ Len(allResults) = Cardinality(Succeeded)

\* C28 witness: the second item of the first batch failed; the run returned
\* the first item and the third, of the batch after, in this order
C28_Witness ==
  /\ script = "analyzeReceipts" /\ pc = "returned"
  /\ Len(batches) >= 2 /\ Len(batches[1]) >= 2
  /\ st[File(2, "pdf")] = "failed"
  /\ allResults = << File(1, "pdf"), File(3, "pdf") >>

(* ------------------------------ the evaluator -------------------------- *)
\* what the evaluator leaves alone: the state of the OCR scripts
pipeline ==
  << fileNames, batches, i, st, stage, calls, allResults, results, written, errorLog,
     now, startTime, wakeAt, prevStart, lastJoin, payload >>

\* lines 111-118: readdirSync lists outputsDir; the .json entries are sorted
compareAndGenerateCsv ==
  /\ script = "evaluate" /\ pc = "entry"
  /\ evalFiles' \in sortByNumber(readdirJson)
  /\ pc' = "compare"
  /\ UNCHANGED << params, transformer, sink, pipeline, error, disk, compared, allComparisons, csv >>

\* line 112: readdirSync throws (outputsDir cannot be listed)
readdirSync_throws ==
  /\ script = "evaluate" /\ pc = "entry"
  /\ pc' = "threw" /\ error' = "readdir"
  /\ UNCHANGED << params, transformer, sink, pipeline, comparator >>

\* line 120: flatMap maps the next file to its rows
flatMap ==
  /\ script = "evaluate" /\ pc = "compare" /\ compared < Len(evalFiles)
  /\ allComparisons' = allComparisons \o compareReceipts(evalFiles[compared + 1])
  /\ compared' = compared + 1
  /\ UNCHANGED << params, transformer, sink, pipeline, pc, error, disk, evalFiles, csv >>

\* lines 95-108: the header line and one line for each row
generateCsv(rows) ==
  << << "file_name", "field", "outputs_value", "evaluate_value", "comparison_result" >> >>
  \o [ k \in 1..Len(rows) |->
         << rows[k].file_name, rows[k].field, rows[k].outputs_value,
            rows[k].evaluate_value, rows[k].comparison_result >> ]

\* lines 122-131: the report is written
writeFileSync_returns ==
  /\ script = "evaluate" /\ pc = "compare" /\ compared = Len(evalFiles)
  /\ csv' = << generateCsv(allComparisons) >>
  /\ pc' = "completed"
  /\ UNCHANGED << params, transformer, sink, pipeline, error, disk, evalFiles, compared, allComparisons >>

\* line 123: writeFileSync throws
writeFileSync_throws ==
  /\ script = "evaluate" /\ pc = "compare" /\ compared = Len(evalFiles)
  /\ pc' = "threw" /\ error' = "writeFile"
  /\ UNCHANGED << params, transformer, sink, pipeline, comparator >>

\* lines 132-135 and 143-146: the error is logged, rethrown, and main exits
evaluate_catch ==
  /\ script = "evaluate" /\ pc = "threw"
  /\ pc' = "exited"
  /\ UNCHANGED << params, transformer, sink, pipeline, error, comparator >>

EvalNext ==
  \/ compareAndGenerateCsv
  \/ readdirSync_throws
  \/ flatMap
  \/ writeFileSync_returns
  \/ writeFileSync_throws
  \/ evaluate_catch

\* the numbered record files
NumberedJson == { File(n, "json") : n \in 1..MaxFiles }

\* one pair of files with every content that is told apart
pairOnDisk(n, outputs, evaluate) ==
  [ side \in Sides |->
      [ f \in EvalNames |->
          IF f # File(n, "json") THEN Missing
          ELSE IF side = "outputs" THEN outputs ELSE evaluate ] ]

\* a directory of record files, with or without all_results.json and a file
\* that is not .json; evaluateDir holds records only
directoryOnDisk(outputs, evaluate, others) ==
  [ side \in Sides |->
      [ f \in EvalNames |->
          IF f \in NumberedJson
          THEN IF side = "outputs" THEN outputs[f] ELSE evaluate[f]
          ELSE IF side = "outputs" /\ f \in others
          THEN IF f = AllResultsJson THEN Object(EmptyObject) ELSE NotJson
          ELSE Missing ] ]

\* the directories tried: lines 4-8, 139-142
EvalInputs ==
  /\ script = "evaluate"
  /\ maxFiles = 0 /\ batchSize = 0 /\ rateLimitWindow = 0
  /\ targetFiles = << >> /\ limit = << >> /\ service = {}
  /\ \/ \E n \in 1..MaxFiles :
          \E outputs \in {NotJson} \cup { Object(r) : r \in OutputsReceipts } :
             \E evaluate \in {Missing, NotJson} \cup { Object(r) : r \in EvaluateReceipts } :
                disk = pairOnDisk(n, outputs, evaluate)
     \/ \E outputs \in [ NumberedJson -> {Missing, NotJson, Object(printedReceipt)} ] :
          \E evaluate \in [ NumberedJson -> {Missing, Object(truthReceipt)} ] :
             \E others \in SUBSET { AllResultsJson, File(1, "pdf") } :
                disk = directoryOnDisk(outputs, evaluate, others)

EvalInit ==
  /\ EvalInputs /\ Start
  /\ evalFiles = << >> /\ compared = 0 /\ allComparisons = << >> /\ csv = << >>
  /\ NoTransform

EvalSpec == EvalInit /\ [][EvalNext]_vars

Unreadable(f) ==
  \/ readJsonFile("outputs", disk.outputs[f]).throws
  \/ readJsonFile("evaluate", disk.evaluate[f]).throws

\* the rows of the file of this name
RowsOf(f) == SelectSeq(allComparisons, LAMBDA row : row.file_name = f)

\* a file that cannot be read has no row and stops nothing: the comparison
\* throws for the directory or the report only, every file that can be read
\* has its six rows once flatMap has come to it, and the report holds the rows
ZeroRowsNoAbort ==
  script = "evaluate" =>
     /\ pc \in {"threw", "exited"} => error \in {"readdir", "writeFile"}
     /\ \A k \in 1..compared :
          IF Unreadable(evalFiles[k])
          THEN RowsOf(evalFiles[k]) = << >>
          ELSE Len(RowsOf(evalFiles[k])) = Len(fields)
     /\ pc = "completed" =>
          /\ compared = Len(evalFiles)
          /\ Range(evalFiles) = readdirJson
          /\ csv = << generateCsv(allComparisons) >>

\* the numbered files are compared in the ascending order of their numbers
AscendingNumericOrder ==
  (script = "evaluate" /\ pc # "entry") =>
     \A j, k \in 1..Len(evalFiles) :
        (evalFiles[j] \in NumberedJson /\ evalFiles[k] \in NumberedJson /\ j < k) =>
           evalFiles[j].name < evalFiles[k].name

\* C30 (as claimed): a file that cannot be read or parsed on either side has
\* no row and does not abort the comparison; every other file is compared, in
\* the ascending numeric order of the file names, and the report is written
C30_UnreadableFileIsolated == ZeroRowsNoAbort /\ AscendingNumericOrder

(* ----------------------- the transformer: amounts ---------------------- *)
\* the number of bits of the significand of a Number, scaled down from 53
Precision == 3

RECURSIVE Pow2(_)
Pow2(k) == IF k = 0 THEN 1 ELSE 2 * Pow2(k - 1)

\* the largest finite Number of the scaled format (Number.MAX_VALUE)
MaxFinite == (Pow2(Precision) - 1) * Pow2(Precision)

\* the values of a Number
NaN == [ kind |-> "nan", n |-> 0 ]

Infinity(sign) == [ kind |-> "inf", n |-> sign ]

Finite(n) == [ kind |-> "finite", n |-> n ]

Abs(n) == IF n < 0 THEN 0 - n ELSE n

\* the exponent at which a magnitude fits in the significand
RECURSIVE Exponent(_)
Exponent(a) == IF a < Pow2(Precision) THEN 0 ELSE 1 + Exponent(a \div 2)

\* the Number nearest to the exact value n: round to nearest, ties to even,
\* Infinity beyond the largest finite Number
Round(n) ==
  LET a == Abs(n)
      k == Exponent(a)
      q == a \div Pow2(k)
      r == a % Pow2(k)
      up == k > 0 /\ (2 * r > Pow2(k) \/ (2 * r = Pow2(k) /\ q % 2 = 1))
      v == (IF up THEN q + 1 ELSE q) * Pow2(k)
  IN  IF v > MaxFinite THEN Infinity(IF n < 0 THEN 0 - 1 ELSE 1)
      ELSE Finite(IF n < 0 THEN 0 - v ELSE v)

\* a - b of two Numbers
minus(a, b) ==
  IF a.kind = "nan" \/ b.kind = "nan" THEN NaN
  ELSE IF a.kind = "inf" /\ b.kind = "inf"
  THEN IF a.n = b.n THEN NaN ELSE a
  ELSE IF a.kind = "inf" THEN a
  ELSE IF b.kind = "inf" THEN Infinity(0 - b.n)
  ELSE Round(a.n - b.n)

\* a + b of two Numbers
plus(a, b) ==
  IF a.kind = "nan" \/ b.kind = "nan" THEN NaN
  ELSE IF a.kind = "inf" /\ b.kind = "inf"
  THEN IF a.n = b.n THEN a ELSE NaN
  ELSE IF a.kind = "inf" THEN a
  ELSE IF b.kind = "inf" THEN b
  ELSE Round(a.n + b.n)

\* the digits a text begins with
RECURSIVE DigitsPrefix(_)
DigitsPrefix(s) ==
  IF s = << >> \/ Head(s) \notin Range(DigitChars) THEN << >>
  ELSE << Head(s) >> \o DigitsPrefix(Tail(s))

\* the value of a text of digits
RECURSIVE DecimalValue(_)
DecimalValue(s) ==
  IF s = << >> THEN 0
  ELSE 10 * DecimalValue(SubSeq(s, 1, Len(s) - 1))
       + (CHOOSE d \in 0..9 : DigitChars[d + 1] = s[Len(s)])

InfinityText == << "I", "n", "f", "i", "n", "i", "t", "y" >>

\* parseFloat(value) of a text without a decimal point or an exponent: the
\* number its longest numeric prefix denotes, NaN when it has none (and for
\* undefined, which is converted to the text "undefined")
parseFloat(value) ==
  IF value.t # "string" \/ value.s = << >> THEN NaN
  ELSE LET sign == IF Head(value.s) = "-" THEN 0 - 1 ELSE 1
           rest == IF Head(value.s) \in {"-", "+"} THEN Tail(value.s) ELSE value.s
       IN  IF Len(rest) >= Len(InfinityText)
              /\ SubSeq(rest, 1, Len(InfinityText)) = InfinityText
           THEN Infinity(sign)
           ELSE IF DigitsPrefix(rest) = << >> THEN NaN
           ELSE Round(sign * DecimalValue(DigitsPrefix(rest)))

\* orZero keeping the NaN of parseFloat
orZero_NaN(number) == number

\* number || 0: NaN and 0 are falsy
orZero(number) ==
  IF number.kind = "nan" \/ (number.kind = "finite" /\ number.n = 0)
  THEN Finite(0)
  ELSE number

\* entry.取引日.replace(/\//g, '-')
replaceSlashes(s) == [ k \in 1..Len(s) |-> IF s[k] = "/" THEN "-" ELSE s[k] ]

\* a journal entry: 取引日 (date), 取引先 (partner), 借方金額 (debit),
\* "8%対象金額" (tax8), 登録番号 (registration)
JournalEntry(date, partner, debit, tax8) ==
  [ date |-> date, partner |-> partner, debit |-> debit, tax8 |-> tax8,
    registration |-> Str(<< "T", "1" >>) ]

\* lines 137-165 without JSON.parse: the record of the first entry; the call
\* throws when there is none and when the date of the entry is not a string
recordThrows(content) ==
  IF transformThrows(content.text) THEN TRUE
  ELSE content.entries[1].date.t # "string"

recordOf(content, fileName) ==
  LET entry == content.entries[1]
      tax8Amount == orZero(parseFloat(entry.tax8))
      totalAmount == orZero(parseFloat(entry.debit))
      tax10Amount == minus(totalAmount, tax8Amount)
      formattedDate == replaceSlashes(entry.date.s)
  IN  [ date |-> formattedDate,
        store_name |-> entry.partner,
        total_amount |-> totalAmount,
        tax_8_amount |-> tax8Amount,
        tax_10_amount |-> tax10Amount,
        invoice_number |-> entry.registration,
        file_name |-> fileName ]

\* lines 137-162: transformToReceiptData returns the record
transformToReceiptData ==
  /\ script = "transformToReceiptData" /\ pc = "entry"
  /\ ~recordThrows(rawJson)
  /\ receiptData' = << recordOf(rawJson, File(1, "pdf")) >>
  /\ pc' = "returned"
  /\ UNCHANGED << params, sink, pipeline, comparator, error, rawJson >>

\* lines 141-143 and 162-165: it throws; the error is logged and rethrown
transformToReceiptData_rethrows ==
  /\ script = "transformToReceiptData" /\ pc = "entry"
  /\ recordThrows(rawJson)
  /\ pc' = "threw" /\ error' = "item"
  /\ UNCHANGED << params, sink, pipeline, comparator, transformer >>

TransformNext ==
  \/ transformToReceiptData
  \/ transformToReceiptData_rethrows

\* the texts of an amount that are tried: absent, empty, not a number, whole
\* numbers that fit the significand and that do not, a thousands separator, a
\* negative number, Infinity
AmountTexts ==
  { Undefined, Str(<< >>), Str(<< "a" >>), Str(<< "0" >>), Str(<< "1" >>),
    Str(<< "5" >>), Str(<< "9" >>), Str(<< "1", "6" >>), Str(<< "5", "6" >>),
    Str(<< "1", ",", "0" >>), Str(<< "-", "5", "6" >>), Str(InfinityText) }

\* the payloads tried: text that is not JSON, null, and arrays of up to two
\* entries
TransformInputs ==
  /\ script = "transformToReceiptData"
  /\ maxFiles = 0 /\ batchSize = 0 /\ rateLimitWindow = 0
  /\ targetFiles = << >> /\ limit = << >> /\ service = {}
  /\ \/ \E text \in {"not JSON", "null", "empty array"} :
          rawJson = [ text |-> text, entries |-> << >> ]
     \/ \E debit \in AmountTexts, tax8 \in AmountTexts :
          \E date \in { Undefined, Str(<< "1", "/", "2" >>) } :
             \E more \in { << >>,
                           << JournalEntry(Str(<< "3", "/", "4" >>), "second",
                                           Str(<< "5" >>), Str(<< "1" >>)) >> } :
                rawJson =
                  [ text |-> "entries",
                    entries |-> << JournalEntry(date, "first", debit, tax8) >> \o more ]

TransformInit ==
  /\ TransformInputs /\ Start /\ NoComparison
  /\ receiptData = << >>

TransformSpec == TransformInit /\ [][TransformNext]_vars

\* the text of an amount denotes no number: it is absent, or it begins with
\* neither a digit nor a sign nor Infinity
NotNumeric(value) ==
  \/ value.t # "string"
  \/ value.s = << >>
  \/ Head(value.s) \notin Range(DigitChars) \cup {"-", "+", "I"}

\* the text of an amount is a whole number that fits the significand
SmallWhole(value) ==
  /\ value.t = "string" /\ value.s # << >>
  /\ DigitsPrefix(value.s) = value.s
  /\ DecimalValue(value.s) < Pow2(Precision)

\* C31 (as claimed): in every record transformToReceiptData produces,
\* tax_8_amount + tax_10_amount = total_amount
C31_SumIsTotal ==
  (script = "transformToReceiptData" /\ pc = "returned") =>
     plus(receiptData[1].tax_8_amount, receiptData[1].tax_10_amount)
       = receiptData[1].total_amount

\* C31 (amended): the record is built from the first journal entry only;
\* total_amount and tax_8_amount are the parsed amounts, never NaN, 0 when the
\* amount is absent or not numeric; tax_10_amount is their difference as the
\* arithmetic of Number computes it; and tax_8_amount + tax_10_amount =
\* total_amount in every record whose amounts are finite and whose difference
\* is computed exactly, as for whole amounts that fit the significand
C31_RecordOfFirstEntry ==
  (script = "transformToReceiptData" /\ pc = "returned") =>
     LET record == receiptData[1]
         entry == rawJson.entries[1]
         total == record.total_amount
         tax8 == record.tax_8_amount
         tax10 == record.tax_10_amount
     IN  /\ Len(receiptData) = 1
         /\ record.store_name = "first"
         /\ record.invoice_number = entry.registration
         /\ Len(record.date) = Len(entry.date.s)
         /\ \A k \in 1..Len(record.date) : record.date[k] # "/"
         /\ total.kind # "nan" /\ tax8.kind # "nan"
         /\ NotNumeric(entry.debit) => total = Finite(0)
         /\ NotNumeric(entry.tax8) => tax8 = Finite(0)
         /\ SmallWhole(entry.debit) => total = Finite(DecimalValue(entry.debit.s))
         /\ SmallWhole(entry.tax8) => tax8 = Finite(DecimalValue(entry.tax8.s))
         /\ tax10 = minus(total, tax8)
         /\ (/\ total.kind = "finite" /\ tax8.kind = "finite" /\ tax10.kind = "finite"
             /\ tax10.n = total.n - tax8.n) =>
               plus(tax8, tax10) = total
         /\ (SmallWhole(entry.debit) /\ SmallWhole(entry.tax8)) =>
               plus(tax8, tax10) = total

\* C31 witness: a payload of two entries whose first has a debit of 5 and no
\* 8% amount gave the record of the first: total 5, 8% amount 0, 10% amount 5
C31_Witness ==
  /\ script = "transformToReceiptData" /\ pc = "returned"
  /\ Len(rawJson.entries) = 2
  /\ rawJson.entries[1].tax8 = Undefined
  /\ receiptData[1].total_amount = Finite(5)
  /\ receiptData[1].tax_8_amount = Finite(0)
  /\ receiptData[1].tax_10_amount = Finite(5)

====
